---- MODULE Spec2Model ----
(***************************************************************************)
(* The AI chat page of the LMS front end: the Chat component               *)
(* (useState/useEffect hooks, handleSendMessage, handleKeyPress,           *)
(* handleClearChat) and the ai-chat service (getAIResponse, the three      *)
(* provider calls, the two format conversions and the sessionStorage       *)
(* functions).                                                             *)
(*                                                                         *)
(* Texts are sequences of tokens; the token " " is white space, so that    *)
(* String.prototype.trim is modelled by what it does.  A message id is the *)
(* number whose decimal form the code stores (toString is injective).      *)
(* A Date is the number of milliseconds it holds.                          *)
(*                                                                         *)
(* The events are those the rendered controls can emit: the TextField is   *)
(* disabled while loading (no change and no key event then), the submit    *)
(* button is disabled while loading or while the trimmed input is empty,   *)
(* and the Clear Chat button is rendered only for a non-empty list.        *)
(***************************************************************************)
EXTENDS Integers, Sequences, FiniteSets, TLC

VARIABLES
  keys,        \* import.meta.env: the three API keys
  clock,       \* what Date.now() returned last
  messages,    \* useState<ChatMessage[]>
  inputValue,  \* useState('')
  isLoading,   \* useState(false)
  storage,     \* sessionStorage['ai_chat_messages']: NoItem or the stored JSON
  calls,       \* the calls of getAIResponse by the mounted component that have not settled yet
  orphans,     \* how many calls by unmounted components have not settled yet
  lastOp,      \* the handler or callback that ran last, and how it went
  mongodbUri,  \* process.env.MONGODB_URI of the back end
  connectUrl,  \* MongoConnection.connectUrl
  connects     \* the calls of MongoConnection.connect made so far

\* The state of the back end's MongoConnection.
mongoVars == <<mongodbUri, connectUrl, connects>>

\* The state of the chat page.
chatVars == <<keys, clock, messages, inputValue, isLoading, storage, calls, orphans, lastOp>>

vars == <<keys, clock, messages, inputValue, isLoading, storage, calls, orphans, lastOp,
          mongodbUri, connectUrl, connects>>

----------------------------------------------------------------------------
\* Bounds of the model.

\* Date.now() when the page is opened.
StartTime == 10
\* The longest message list convertToGeminiFormat is tried on by itself.
GeminiMaxLen == 3
\* How many milliseconds the clock may advance.
MaxTicks == 1
\* A submit event is generated only while the list is shorter than this.
MaxMessages == 2
\* A submit event is generated only while fewer calls than this are outstanding
\* (calls of unmounted components included).
MaxCalls == 2
\* How many times MongoConnection.connect is called.
MaxConnects == 3

----------------------------------------------------------------------------
\* Texts.

Space == " "

RECURSIVE trimStart(_)
trimStart(s) ==
  IF s = <<>> THEN s
  ELSE IF Head(s) = Space THEN trimStart(Tail(s)) ELSE s

RECURSIVE trimEnd(_)
trimEnd(s) ==
  IF s = <<>> THEN s
  ELSE IF s[Len(s)] = Space THEN trimEnd(SubSeq(s, 1, Len(s) - 1)) ELSE s

trim(s) == trimEnd(trimStart(s))

\* What the user may have in the text field.
Inputs == { <<>>, <<Space>>, <<Space, "a", Space>> }

\* The keys of a keyboard event the model generates.
Keys == { "Enter", "a" }

\* A key of import.meta.env: unset (or empty), or set.
KeyValues == { "", "k" }

\* sessionStorage.getItem gives null when the key is absent; the stored
\* item is <<json>>, the absent one <<>>.
NoItem == <<>>

ErrorPrefix == "Error: "
CouldNotFetch == "Could not fetch response. Please try again later."
NoApiKey == "No API key found. Please set VITE_GEMINI_API_KEY, VITE_GROQ_API_KEY, or VITE_OPENAI_API_KEY in your environment variables."
SystemInstruction == "You are a helpful AI assistant for students in a Learning Management System."
WelcomeText == "Hello! I'm your AI study assistant."
WelcomeId == 1

----------------------------------------------------------------------------
\* Format translation.

openAIEntry(msg) ==
  [role |-> IF msg.isUser THEN "user" ELSE "assistant", content |-> msg.text]

convertToOpenAIFormat(msgs) ==
  <<[role |-> "system", content |-> <<SystemInstruction>>]>>
    \o [i \in 1..Len(msgs) |-> openAIEntry(msgs[i])]

geminiEntry(msg, firstUserMessage) ==
  IF msg.isUser
  THEN [role |-> "user",
        parts |-> << [text |-> IF firstUserMessage
                               THEN <<SystemInstruction, "\n\nUser: ">> \o msg.text
                               ELSE msg.text] >>]
  ELSE [role |-> "model", parts |-> << [text |-> msg.text] >>]

\* convertToGeminiFormat's loop with "firstUserMessage = false" forgotten.
RECURSIVE geminiLoopFlagKept(_, _)
geminiLoopFlagKept(msgs, firstUserMessage) ==
  IF msgs = <<>> THEN <<>>
  ELSE <<geminiEntry(Head(msgs), firstUserMessage)>>
         \o geminiLoopFlagKept(Tail(msgs), firstUserMessage)

RECURSIVE geminiLoop(_, _)
geminiLoop(msgs, firstUserMessage) ==
  IF msgs = <<>> THEN <<>>
  ELSE <<geminiEntry(Head(msgs), firstUserMessage)>>
         \o geminiLoop(Tail(msgs), firstUserMessage /\ ~Head(msgs).isUser)

convertToGeminiFormat(msgs) == geminiLoop(msgs, TRUE)

----------------------------------------------------------------------------
\* Fetch and parse.  An outcome is what the network and the provider make of
\* one fetch: kind says how it ends, text is the reply text of a well-formed
\* answer.

OutcomeKinds == { "ok", "network", "reject_non_error", "not_ok", "bad_json",
                  "no_choices", "bad_shape" }

\* The outcomes that are failures of the provider call.
FailureKinds == (OutcomeKinds \ {"ok"}) \cup {"no_key"}

\* The outcome of a call that issued no fetch.
NoFetch == [kind |-> "no_key", text |-> <<>>]

ReplyTexts == { <<Space, "r", Space>> }

Outcomes ==
  { [kind |-> "ok", text |-> t] : t \in ReplyTexts }
    \cup { [kind |-> k, text |-> <<>>] : k \in OutcomeKinds \ {"ok"} }

\* The message of a TypeError or SyntaxError the browser throws (its wording is
\* the browser's).
BrowserMessage == "<message of the browser's error>"

Returned(v) == [threw |-> FALSE, isError |-> FALSE, value |-> v]
Thrown(isErr, m) == [threw |-> TRUE, isError |-> isErr, value |-> m]

\* The part the three provider functions share, after the fetch was issued.
fetchAndParse(name, o) ==
  CASE o.kind = "network"          -> Thrown(TRUE, <<BrowserMessage>>)
    [] o.kind = "reject_non_error" -> Thrown(FALSE, <<>>)
    [] o.kind = "not_ok"           -> Thrown(TRUE, <<name, " API request failed: ">>)
    [] o.kind = "bad_json"         -> Thrown(TRUE, <<BrowserMessage>>)
    [] o.kind = "no_choices"       -> Thrown(TRUE, <<"No response received from ", name, " API">>)
    [] o.kind = "bad_shape"        -> Thrown(TRUE, <<BrowserMessage>>)
    [] OTHER                       -> Returned(trim(o.text))

getGeminiResponse(o) == fetchAndParse("Gemini", o)
getGroqResponse(o) == fetchAndParse("Groq", o)
getOpenAIResponse(o) == fetchAndParse("OpenAI", o)

\* The fetch each provider function issues.
geminiRequest(msgs) == [to |-> "gemini", body |-> convertToGeminiFormat(msgs)]
groqRequest(msgs) == [to |-> "groq", body |-> convertToOpenAIFormat(msgs)]
openAIRequest(msgs) == [to |-> "openai", body |-> convertToOpenAIFormat(msgs)]

\* The selection with the Groq key tried before the Gemini key.
selectProviderGroqFirst(env) ==
  IF env.groq # "" THEN "groq"
  ELSE IF env.gemini # "" THEN "gemini"
  ELSE IF env.openai # "" THEN "openai"
  ELSE "none"

\* Which provider getAIResponse uses.
selectProvider(env) ==
  IF env.gemini # "" THEN "gemini"
  ELSE IF env.groq # "" THEN "groq"
  ELSE IF env.openai # "" THEN "openai"
  ELSE "none"

\* The HTTP requests one call of getAIResponse issues.
httpRequests(env, msgs) ==
  CASE selectProvider(env) = "gemini" -> <<geminiRequest(msgs)>>
    [] selectProvider(env) = "groq"   -> <<groqRequest(msgs)>>
    [] selectProvider(env) = "openai" -> <<openAIRequest(msgs)>>
    [] OTHER                          -> <<>>

\* What the try block of getAIResponse ends with.
tryProvider(env, o) ==
  CASE selectProvider(env) = "gemini" -> getGeminiResponse(o)
    [] selectProvider(env) = "groq"   -> getGroqResponse(o)
    [] selectProvider(env) = "openai" -> getOpenAIResponse(o)
    [] OTHER                          -> Thrown(TRUE, <<NoApiKey>>)

\* getAIResponse returning the bare message of the error it caught.
getAIResponseBareMessage(env, o) ==
  LET r == tryProvider(env, o) IN
  IF ~r.threw THEN [state |-> "resolved", value |-> r.value]
  ELSE IF r.isError THEN [state |-> "resolved", value |-> r.value]
  ELSE [state |-> "resolved", value |-> <<ErrorPrefix, CouldNotFetch>>]

\* How the promise of getAIResponse settles.
getAIResponse(env, o) ==
  LET r == tryProvider(env, o) IN
  IF ~r.threw THEN [state |-> "resolved", value |-> r.value]
  ELSE IF r.isError THEN [state |-> "resolved", value |-> <<ErrorPrefix>> \o r.value]
  ELSE [state |-> "resolved", value |-> <<ErrorPrefix, CouldNotFetch>>]

----------------------------------------------------------------------------
\* Session storage.

\* JSON.stringify of one message: the Date becomes its ISO string.
toJSON(msg) ==
  [id |-> msg.id, text |-> msg.text, isUser |-> msg.isUser,
   timestamp |-> <<"iso", msg.timestamp>>]

\* One parsed message, its timestamp made a Date again.
revive(j) ==
  [id |-> j.id, text |-> j.text, isUser |-> j.isUser, timestamp |-> j.timestamp[2]]

saveMessagesToStorage(msgs) == << [i \in 1..Len(msgs) |-> toJSON(msgs[i])] >>

welcomeMessage(now) ==
  [id |-> WelcomeId, text |-> <<WelcomeText>>, isUser |-> FALSE, timestamp |-> now]

\* loadMessagesFromStorage reading a key nothing is stored under.
loadMessagesFromOtherKey(stored, now) == <<welcomeMessage(now)>>

loadMessagesFromStorage(stored, now) ==
  IF stored # NoItem
  THEN [i \in 1..Len(stored[1]) |-> revive(stored[1][i])]
  ELSE <<welcomeMessage(now)>>

clearChatHistory == NoItem

\* The save effect, run after a render with the list msgs.
saveEffect(msgs, stored) ==
  IF Len(msgs) > 0 THEN saveMessagesToStorage(msgs) ELSE stored

----------------------------------------------------------------------------
\* The Chat component.

userMessage(text, now) ==
  [id |-> now, text |-> text, isUser |-> TRUE, timestamp |-> now]

\* The reply bubble and the error bubble are built alike.
aiMessage(text, now) ==
  [id |-> now + 1, text |-> text, isUser |-> FALSE, timestamp |-> now]

Op(name, accepted, failed, mounted) ==
  [op |-> name, accepted |-> accepted, failed |-> failed, mounted |-> mounted]

\* disabled={!inputValue.trim() || isLoading} of the submit button.
SubmitDisabled == trim(inputValue) = <<>> \/ isLoading

\* disabled={isLoading} of the TextField.
TextFieldDisabled == isLoading

\* A call whose promise is already settled (no fetch was issued): its
\* continuation is a microtask, which runs before any further event.
MicrotaskPending == \E i \in 1..Len(calls) : calls[i].http = <<>>

RemoveAt(s, i) == SubSeq(s, 1, i - 1) \o SubSeq(s, i + 1, Len(s))

\* handleSendMessage with setIsLoading(true) left out.
handleSendMessageNotLoading(now) ==
  IF trim(inputValue) = <<>> \/ isLoading
  THEN /\ lastOp' = Op("submit", FALSE, FALSE, TRUE)
       /\ UNCHANGED <<keys, clock, messages, inputValue, isLoading, storage, calls, orphans>>
  ELSE LET messageText == trim(inputValue)
           m == userMessage(messageText, now)
           updatedMessages == Append(messages, m)
       IN /\ inputValue' = <<>>
          /\ messages' = Append(messages, m)
          /\ storage' = saveEffect(messages', storage)
          /\ calls' = Append(calls, [msgs |-> updatedMessages,
                                     http |-> httpRequests(keys, updatedMessages)])
          /\ clock' = now
          /\ lastOp' = Op("submit", TRUE, FALSE, TRUE)
          /\ UNCHANGED <<keys, isLoading, orphans>>

\* handleSendMessage testing inputValue where it should test inputValue.trim().
handleSendMessageUntrimmed(now) ==
  IF inputValue = <<>> \/ isLoading
  THEN /\ lastOp' = Op("submit", FALSE, FALSE, TRUE)
       /\ UNCHANGED <<keys, clock, messages, inputValue, isLoading, storage, calls, orphans>>
  ELSE LET messageText == trim(inputValue)
           m == userMessage(messageText, now)
           updatedMessages == Append(messages, m)
       IN /\ inputValue' = <<>>
          /\ isLoading' = TRUE
          /\ messages' = Append(messages, m)
          /\ storage' = saveEffect(messages', storage)
          /\ calls' = Append(calls, [msgs |-> updatedMessages,
                                     http |-> httpRequests(keys, updatedMessages)])
          /\ clock' = now
          /\ lastOp' = Op("submit", TRUE, FALSE, TRUE)
          /\ UNCHANGED <<keys, orphans>>

\* handleSendMessage up to its await; now is what Date.now() returns.
handleSendMessage(now) ==
  IF trim(inputValue) = <<>> \/ isLoading
  THEN /\ lastOp' = Op("submit", FALSE, FALSE, TRUE)
       /\ UNCHANGED <<keys, clock, messages, inputValue, isLoading, storage, calls, orphans>>
  ELSE LET messageText == trim(inputValue)
           m == userMessage(messageText, now)
           updatedMessages == Append(messages, m)
       IN /\ inputValue' = <<>>
          /\ isLoading' = TRUE
          /\ messages' = Append(messages, m)
          /\ storage' = saveEffect(messages', storage)
          /\ calls' = Append(calls, [msgs |-> updatedMessages,
                                     http |-> httpRequests(keys, updatedMessages)])
          /\ clock' = now
          /\ lastOp' = Op("submit", TRUE, FALSE, TRUE)
          /\ UNCHANGED <<keys, orphans>>

\* The continuation appending to the list its handler closed over, the one
\* from before the user's message, where it should append to the current list.
resumeSendMessageStaleList(i, o, now) ==
  LET r == getAIResponse(keys, o)
      before == SubSeq(calls[i].msgs, 1, Len(calls[i].msgs) - 1)
  IN /\ calls' = RemoveAt(calls, i)
     /\ messages' = Append(before, aiMessage(r.value, now))
     /\ isLoading' = FALSE
     /\ storage' = saveEffect(messages', storage)
     /\ clock' = now
     /\ lastOp' = Op("settle", TRUE, o.kind \in FailureKinds, TRUE)
     /\ UNCHANGED <<keys, inputValue, orphans>>

\* The continuation without its finally block.
resumeSendMessageNoFinally(i, o, now) ==
  LET r == getAIResponse(keys, o)
  IN /\ calls' = RemoveAt(calls, i)
     /\ messages' = Append(messages, aiMessage(r.value, now))
     /\ storage' = saveEffect(messages', storage)
     /\ clock' = now
     /\ lastOp' = Op("settle", TRUE, o.kind \in FailureKinds, TRUE)
     /\ UNCHANGED <<keys, inputValue, isLoading, orphans>>

\* handleSendMessage after its await, for call i of the mounted component and
\* the outcome o of its fetch.
resumeSendMessage(i, o, now) ==
  LET r == getAIResponse(keys, o)
      bubble == IF r.state = "resolved"
                THEN aiMessage(r.value, now)
                ELSE aiMessage(<<ErrorPrefix, CouldNotFetch>>, now)
  IN /\ calls' = RemoveAt(calls, i)
     /\ messages' = Append(messages, bubble)
     /\ isLoading' = FALSE
     /\ storage' = saveEffect(messages', storage)
     /\ clock' = now
     /\ lastOp' = Op("settle", TRUE, o.kind \in FailureKinds, TRUE)
     /\ UNCHANGED <<keys, inputValue, orphans>>

\* The same continuation in a component that has been unmounted: React drops
\* its setMessages and setIsLoading.
resumeUnmounted(o, now) ==
  /\ orphans' = orphans - 1
  /\ clock' = now
  /\ lastOp' = Op("settle", TRUE, o.kind \in FailureKinds, FALSE)
  /\ UNCHANGED <<keys, messages, inputValue, isLoading, storage, calls>>

handleKeyPress(key, shiftKey, now) ==
  IF key = "Enter" /\ ~shiftKey
  THEN handleSendMessage(now)
  ELSE /\ lastOp' = Op("other", TRUE, FALSE, TRUE)
       /\ UNCHANGED <<keys, clock, messages, inputValue, isLoading, storage, calls, orphans>>

handleClearChat ==
  /\ messages' = <<>>
  /\ storage' = saveEffect(messages', clearChatHistory)
  /\ lastOp' = Op("clear", TRUE, FALSE, TRUE)
  /\ UNCHANGED <<keys, clock, inputValue, isLoading, calls, orphans>>

\* The mount effects of a fresh component: load, then save what was loaded.
mountChat(now) ==
  /\ messages' = loadMessagesFromStorage(storage, now)
  /\ inputValue' = <<>>
  /\ isLoading' = FALSE
  /\ storage' = saveEffect(messages', storage)
  /\ clock' = now

----------------------------------------------------------------------------
\* Events.

\* What Date.now() may return: the clock stays or advances.
Now == clock .. (StartTime + MaxTicks)

TypeInput ==
  /\ UNCHANGED mongoVars
  /\ ~MicrotaskPending
  /\ ~TextFieldDisabled
  /\ \E v \in Inputs : inputValue' = v
  /\ lastOp' = Op("other", TRUE, FALSE, TRUE)
  /\ UNCHANGED <<keys, clock, messages, isLoading, storage, calls, orphans>>

ClickSubmit ==
  /\ UNCHANGED mongoVars
  /\ ~MicrotaskPending
  /\ ~SubmitDisabled
  /\ Len(messages) < MaxMessages
  /\ Len(calls) + orphans < MaxCalls
  /\ \E now \in Now : handleSendMessage(now)

KeyPress ==
  /\ UNCHANGED mongoVars
  /\ ~MicrotaskPending
  /\ ~TextFieldDisabled
  /\ Len(messages) < MaxMessages
  /\ Len(calls) + orphans < MaxCalls
  /\ \E key \in Keys, shiftKey \in BOOLEAN, now \in Now : handleKeyPress(key, shiftKey, now)

ClickClearChat ==
  /\ UNCHANGED mongoVars
  /\ ~MicrotaskPending
  /\ Len(messages) > 0
  /\ handleClearChat

Settle ==
  /\ UNCHANGED mongoVars
  /\ \E i \in 1..Len(calls), now \in Now :
       \E o \in (IF calls[i].http = <<>> THEN {NoFetch} ELSE Outcomes) :
         resumeSendMessage(i, o, now)

SettleUnmounted ==
  /\ UNCHANGED mongoVars
  /\ orphans > 0
  /\ \E o \in Outcomes, now \in Now : resumeUnmounted(o, now)

\* The page is left and opened again: the component is unmounted, and a new
\* one mounted.
Remount ==
  /\ UNCHANGED mongoVars
  /\ ~MicrotaskPending
  /\ orphans' = orphans + Len(calls)
  /\ calls' = <<>>
  /\ \E now \in Now : mountChat(now)
  /\ lastOp' = Op("mount", TRUE, FALSE, TRUE)
  /\ UNCHANGED keys

\* ---------------------------------------------------------------------
\* The back end's MongoConnection (connections/mongo.connection.ts).

\* What process.env.MONGODB_URI can hold: nothing, the empty string, a URI.
UriUnset == [set |-> FALSE, value |-> ""]
UriValues ==
  { UriUnset, [set |-> TRUE, value |-> ""], [set |-> TRUE, value |-> "mongodb://db/lms"] }

\* a ?? '' : only an unset variable is replaced, the empty string is kept.
coalesce(e) == IF e.set THEN e.value ELSE ""

\* The constructor's assignment of connectUrl.
constructConnectUrl(e) == coalesce(e)

\* An Error, as a list of the parts of its message.
UriNotDefined == "MONGODB_URI is not defined in environment variables"
ConnectingPrefix == "Error connecting to MongoDB: "
UnknownError == "Unknown error"
NoMessage == ""
NoValue == [isError |-> FALSE, message |-> <<>>]
newError(parts) == [isError |-> TRUE, message |-> parts]

\* What mongoose.connect rejects with: an Error with a message (two of
\* them), an Error with an empty message, a value that has no message
\* property.  mongoose rejects with objects; null and undefined, on which the
\* catch block's own error.message would throw, are not among its rejections.
DriverErrors ==
  { [isError |-> TRUE, message |-> "server selection timed out"],
    [isError |-> TRUE, message |-> "bad auth"],
    [isError |-> TRUE, message |-> NoMessage],
    [isError |-> FALSE, message |-> NoMessage] }

\* One call of connect: where it stands, what its promise rejected with, and
\* what became of the mongoose.connect call it made, if it made one.
ConnectCall(pc, error, driver) == [pc |-> pc, error |-> error, driver |-> driver]

\* The catch block: error.message || 'Unknown error', wrapped in a new Error.
catchWrap(error) ==
  newError(<<ConnectingPrefix,
             IF error.message = NoMessage THEN UnknownError ELSE error.message>>)

\* connect, run to its first await without the check of connectUrl.
connectUnguarded(url) == ConnectCall("awaiting", NoValue, "pending")
\* connect, run to its first await: an empty connectUrl throws inside the try
\* and the promise is rejected by the catch block before any await.
connectStart(url) ==
  IF url = ""
  THEN ConnectCall("rejected", catchWrap(newError(UriNotDefined)), "none")
  ELSE ConnectCall("awaiting", NoValue, "pending")

\* connect, resumed when mongoose.connect is fulfilled.
connectResumeOk(c) == ConnectCall("resolved", NoValue, "ok")
\* connect, resumed in the catch block when mongoose.connect is rejected.
connectResumeFailed(c, error) == ConnectCall("rejected", catchWrap(error), "failed")

Connect ==
  /\ Len(connects) < MaxConnects
  /\ connects' = Append(connects, connectStart(connectUrl))
  /\ UNCHANGED <<mongodbUri, connectUrl>>
  /\ UNCHANGED chatVars

MongooseFulfils ==
  /\ \E i \in 1..Len(connects) :
       /\ connects[i].pc = "awaiting"
       /\ connects' = [connects EXCEPT ![i] = connectResumeOk(connects[i])]
  /\ UNCHANGED <<mongodbUri, connectUrl>>
  /\ UNCHANGED chatVars

MongooseRejects ==
  /\ \E i \in 1..Len(connects), e \in DriverErrors :
       /\ connects[i].pc = "awaiting"
       /\ connects' = [connects EXCEPT ![i] = connectResumeFailed(connects[i], e)]
  /\ UNCHANGED <<mongodbUri, connectUrl>>
  /\ UNCHANGED chatVars

\* The back end before it is started: nothing constructed yet.
MongoIdle ==
  /\ mongodbUri = UriUnset
  /\ connectUrl = constructConnectUrl(UriUnset)
  /\ connects = <<>>

Init ==
  /\ keys \in [gemini : KeyValues, groq : KeyValues, openai : KeyValues]
  /\ clock = StartTime
  /\ messages = loadMessagesFromStorage(NoItem, StartTime)
  /\ inputValue = <<>>
  /\ isLoading = FALSE
  /\ storage = saveEffect(messages, NoItem)
  /\ calls = <<>>
  /\ orphans = 0
  /\ lastOp = Op("mount", TRUE, FALSE, TRUE)
  /\ MongoIdle

Next ==
  \/ TypeInput
  \/ ClickSubmit
  \/ KeyPress
  \/ ClickClearChat
  \/ Settle
  \/ SettleUnmounted
  \/ Remount

Spec == Init /\ [][Next]_vars

\* The provider call of the mounted component eventually settles.
FairSpec == Spec /\ WF_vars(Settle)

\* The back end alone: a MongoConnection constructed under each value of
\* MONGODB_URI, whose connect is then called; the chat page stays as loaded.
MongoInit ==
  /\ mongodbUri \in UriValues
  /\ connectUrl = constructConnectUrl(mongodbUri)
  /\ connects = <<>>
  /\ keys = [gemini |-> "", groq |-> "", openai |-> ""]
  /\ clock = StartTime
  /\ messages = loadMessagesFromStorage(NoItem, StartTime)
  /\ inputValue = <<>>
  /\ isLoading = FALSE
  /\ storage = saveEffect(messages, NoItem)
  /\ calls = <<>>
  /\ orphans = 0
  /\ lastOp = Op("mount", TRUE, FALSE, TRUE)

MongoNext ==
  \/ Connect
  \/ MongooseFulfils
  \/ MongooseRejects

MongoSpec == MongoInit /\ [][MongoNext]_vars

----------------------------------------------------------------------------
\* Helpers of the properties.

IsPrefix(s, t) == Len(s) <= Len(t) /\ SubSeq(t, 1, Len(s)) = s

Last(s) == s[Len(s)]

\* A message list without its timestamps.
View(ms) == [i \in 1..Len(ms) |-> [id |-> ms[i].id, text |-> ms[i].text, isUser |-> ms[i].isUser]]

\* The provider the priority order Gemini, Groq, OpenAI names for the keys.
ExpectedProvider ==
  IF keys.gemini # "" THEN "gemini"
  ELSE IF keys.groq # "" THEN "groq"
  ELSE IF keys.openai # "" THEN "openai"
  ELSE "none"

----------------------------------------------------------------------------
\* C1: one call of getAIResponse issues at most one HTTP request; it goes to
\* Gemini if the Gemini key is set, else to Groq if the Groq key is set, else
\* to OpenAI if the OpenAI key is set; with no key set no request is issued and
\* the call's result, shown as the bubble, is the "Error: No API key found..."
\* string.
C1_ProviderSelection ==
  /\ \A i \in 1..Len(calls) :
       /\ Len(calls[i].http) <= 1
       /\ (ExpectedProvider = "none") <=> (calls[i].http = <<>>)
       /\ \A j \in 1..Len(calls[i].http) : calls[i].http[j].to = ExpectedProvider
  /\ (lastOp.op = "settle" /\ lastOp.mounted /\ ExpectedProvider = "none")
       => Last(messages).text = <<ErrorPrefix, NoApiKey>>

\* A call is in flight to Groq although the OpenAI key is set too.
C1_Witness ==
  /\ keys.gemini = "" /\ keys.groq # "" /\ keys.openai # ""
  /\ Len(calls) = 1
  /\ Len(calls[1].http) = 1
  /\ calls[1].http[1].to = "groq"

\* The bubble of a call made with no key set.
C1_WitnessNoKey ==
  /\ ExpectedProvider = "none"
  /\ lastOp.op = "settle" /\ lastOp.mounted
  /\ Last(messages).text = <<ErrorPrefix, NoApiKey>>

----------------------------------------------------------------------------
\* C2: no two messages of the message list have the same id.
C2_UniqueIds ==
  \A i, j \in 1..Len(messages) : i # j => messages[i].id # messages[j].id

----------------------------------------------------------------------------
\* C3, as stated: every step of the Chat component leaves the previous message
\* list as a prefix of the new one.
C3_AppendOnly == [][IsPrefix(messages, messages')]_vars

\* C3, amended: every step other than Clear Chat (send, reply, error reply,
\* remount) leaves the previous list as a prefix of the new one; Clear Chat
\* replaces the list by the empty list.
C3_AppendOnlyButClear ==
  [][IF lastOp'.op = "clear"
     THEN messages' = <<>>
     ELSE IsPrefix(messages, messages')]_vars

\* A reply has been appended behind a user message and an earlier message.
C3_Witness ==
  /\ lastOp.op = "settle" /\ lastOp.mounted
  /\ Len(messages) >= 3
  /\ messages[Len(messages) - 1].isUser

----------------------------------------------------------------------------
\* C4: the mounted Chat component has at most one call of getAIResponse
\* outstanding at any time, whatever the interleaving of submit clicks, Enter
\* presses, Clear Chat clicks and provider responses; an accepted submit starts
\* exactly one call, and nothing else starts one.
C4_SingleInFlight ==
  [][/\ Len(calls') <= 1
     /\ IF lastOp'.op = "submit" /\ lastOp'.accepted
        THEN Len(calls') = Len(calls) + 1
        ELSE Len(calls') <= Len(calls)]_vars

\* Clear Chat was clicked while the one call is outstanding.
C4_Witness ==
  /\ lastOp.op = "clear"
  /\ Len(calls) = 1
  /\ isLoading

----------------------------------------------------------------------------
\* What C5 says of one step that settles a failed provider call: exactly one
\* non-user message with an "Error:" text is appended, and no call is started.
ErrorBubbleAppended ==
  /\ Len(messages') = Len(messages) + 1
  /\ IsPrefix(messages, messages')
  /\ ~Last(messages').isUser
  /\ Head(Last(messages').text) = ErrorPrefix
  /\ Len(calls') + orphans' < Len(calls) + orphans

\* getAIResponse resolves, with a string starting "Error:", for every failure
\* of the provider call, whatever keys are set.
FailuresResolve ==
  \A env \in [gemini : KeyValues, groq : KeyValues, openai : KeyValues] :
    \A o \in {x \in Outcomes : x.kind \in FailureKinds} \cup {NoFetch} :
      (selectProvider(env) = "none" <=> o = NoFetch)
        => /\ getAIResponse(env, o).state = "resolved"
           /\ Head(getAIResponse(env, o).value) = ErrorPrefix

\* C5, as stated: every failure of the provider call ends with exactly one
\* "Error:" bubble appended to the list, the user's message of that send still
\* in the list, and no further request.
C5_ErrorBubble ==
  [][(lastOp'.op = "settle" /\ lastOp'.failed)
       => /\ FailuresResolve
          /\ ErrorBubbleAppended
          /\ Len(messages') >= 2
          /\ messages'[Len(messages') - 1].isUser]_vars

\* C5, amended: getAIResponse resolves with an "Error:" string for every
\* failure; when the component that sent the message is still mounted, exactly
\* one "Error:" bubble is appended to the list as it is then (the user's
\* message is in it unless Clear Chat emptied the list meanwhile); when that
\* component has been unmounted, nothing is appended; in both cases no further
\* request is made, and each call issued at most one request.
C5_ErrorBubbleWhileMounted ==
  [][(lastOp'.op = "settle" /\ lastOp'.failed)
       => /\ FailuresResolve
          /\ \A i \in 1..Len(calls) : Len(calls[i].http) <= 1
          /\ IF lastOp'.mounted
             THEN /\ ErrorBubbleAppended
                  /\ \A i \in 1..Len(calls) :
                       calls' = RemoveAt(calls, i) /\ messages # <<>>
                         => Last(calls[i].msgs) \in {messages[j] : j \in 1..Len(messages)}
             ELSE /\ messages' = messages
                  /\ Len(calls') + orphans' < Len(calls) + orphans]_vars

\* A failed call has settled in the mounted component, behind the user's message.
C5_Witness ==
  /\ lastOp.op = "settle" /\ lastOp.failed /\ lastOp.mounted
  /\ Len(messages) >= 2
  /\ messages[Len(messages) - 1].isUser
  /\ Head(Last(messages).text) = ErrorPrefix

----------------------------------------------------------------------------
----------------------------------------------------------------------------
\* C7: a submit (button, or Enter without Shift) is accepted if and only if the
\* trimmed input is not empty and isLoading is false; a rejected submit changes
\* nothing of the list, the input, isLoading and the storage and starts no
\* call; an accepted submit clears the input and sets isLoading.
C7_SubmitGuard ==
  [][lastOp'.op = "submit"
       => /\ lastOp'.accepted <=> (trim(inputValue) # <<>> /\ ~isLoading)
          /\ lastOp'.accepted <=> ~SubmitDisabled
          /\ IF lastOp'.accepted
             THEN inputValue' = <<>> /\ isLoading'
             ELSE UNCHANGED <<messages, inputValue, isLoading, storage, calls, orphans>>]_vars

\* Enter was pressed on an input of white space only, and nothing was sent.
C7_Witness ==
  /\ lastOp.op = "submit" /\ ~lastOp.accepted
  /\ inputValue # <<>>
  /\ trim(inputValue) = <<>>
  /\ ~isLoading
  /\ calls = <<>>

----------------------------------------------------------------------------
\* The message lists convertToGeminiFormat is tried on by itself.
SampleMessages ==
  { [id |-> StartTime, text |-> t, isUser |-> u, timestamp |-> StartTime] :
      t \in {<<"a">>, <<"r", Space, "r">>}, u \in BOOLEAN }

SampleLists == UNION { [1..n -> SampleMessages] : n \in 0..GeminiMaxLen }

\* The index of the first isUser message of ms, 0 when there is none.
FirstUser(ms) ==
  IF \E i \in 1..Len(ms) : ms[i].isUser
  THEN CHOOSE i \in 1..Len(ms) : ms[i].isUser /\ \A j \in 1..(i - 1) : ~ms[j].isUser
  ELSE 0

\* out is the Gemini form of ms: one entry per message, in order, the role by
\* isUser, the text unchanged but for the instruction before the first user text.
IsGeminiFormOf(out, ms) ==
  /\ Len(out) = Len(ms)
  /\ \A i \in 1..Len(ms) :
       /\ out[i].role = (IF ms[i].isUser THEN "user" ELSE "model")
       /\ Len(out[i].parts) = 1
       /\ out[i].parts[1].text =
            (IF i = FirstUser(ms)
             THEN <<SystemInstruction, "\n\nUser: ">> \o ms[i].text
             ELSE ms[i].text)

\* How many entries of a Gemini request body carry the system instruction.
InstructionCount(body) ==
  Cardinality({ i \in 1..Len(body) :
                  /\ body[i].parts[1].text # <<>>
                  /\ Head(body[i].parts[1].text) = SystemInstruction })

GeminiFormatOnSamples ==
  \A ms \in SampleLists : IsGeminiFormOf(convertToGeminiFormat(ms), ms)

\* C8: convertToGeminiFormat returns one entry per message in the same order,
\* role "user" exactly for the isUser messages and "model" otherwise, the text
\* unchanged except that the first isUser message, and only that one, is
\* prefixed with the system instruction; every Gemini request the Chat issues
\* is that form of the list it was sent for and carries the instruction once.
C8_GeminiFormat ==
  /\ GeminiFormatOnSamples
  /\ \A i \in 1..Len(calls) : \A j \in 1..Len(calls[i].http) :
       calls[i].http[j].to = "gemini"
         => /\ IsGeminiFormOf(calls[i].http[j].body, calls[i].msgs)
            /\ InstructionCount(calls[i].http[j].body) = 1

\* A Gemini request is in flight for a list with two user messages.
C8_Witness ==
  /\ Len(calls) = 1
  /\ Len(calls[1].http) = 1
  /\ calls[1].http[1].to = "gemini"
  /\ Cardinality({ i \in 1..Len(calls[1].msgs) : calls[1].msgs[i].isUser }) >= 2
  /\ FirstUser(calls[1].msgs) < Len(calls[1].msgs)

----------------------------------------------------------------------------
\* C9, as stated, for the step that settles the call of a send: isLoading is
\* false after it and exactly one non-user message has been appended.
C9_SendCompletes ==
  [][lastOp'.op = "settle"
       => /\ ~isLoading'
          /\ Len(messages') = Len(messages) + 1
          /\ IsPrefix(messages, messages')
          /\ ~Last(messages').isUser]_vars

\* C9, amended: given that the provider call eventually settles, a send
\* accepted by a component that is still mounted when its call settles is
\* followed by a state in which isLoading is false and exactly one non-user
\* message has been appended for it; the call of a component unmounted before
\* settles without changing the list or isLoading; isLoading is true only while
\* a call of the mounted component is outstanding, and does not stay true.
C9_SendCompletesWhileMounted ==
  /\ [](isLoading => Len(calls) > 0)
  /\ [][lastOp'.op = "settle"
          => IF lastOp'.mounted
             THEN /\ ~isLoading'
                  /\ Len(messages') = Len(messages) + 1
                  /\ IsPrefix(messages, messages')
                  /\ ~Last(messages').isUser
             ELSE UNCHANGED <<messages, isLoading>>]_vars
  /\ (isLoading ~> ~isLoading)

\* The call of a send has settled in the mounted component.
C9_Witness ==
  /\ lastOp.op = "settle" /\ lastOp.mounted /\ ~lastOp.failed
  /\ ~isLoading
  /\ calls = <<>>
  /\ ~Last(messages).isUser

----------------------------------------------------------------------------
\* C10: after handleClearChat the message list is empty and session storage
\* holds no chat entry, and both stay so, while the component stays mounted,
\* until the user next submits a message.
C10_ClearIsDurable ==
  [][/\ lastOp'.op = "clear" => (messages' = <<>> /\ storage' = NoItem)
     /\ (messages = <<>> /\ storage = NoItem /\ lastOp'.op \notin {"submit", "mount"})
          => (messages' = <<>> /\ storage' = NoItem)]_vars

----------------------------------------------------------------------------
\* C11: MongoConnection.connect fails closed.  A connect called while
\* MONGODB_URI is unset or empty is rejected and has made no call of
\* mongoose.connect; a connect whose mongoose.connect failed is rejected;
\* whatever connect rejects with is an Error whose message starts with
\* 'Error connecting to MongoDB: '; a connect that resolved has had its
\* mongoose.connect succeed.
C11_ConnectFailsClosed ==
  \A i \in 1..Len(connects) :
    LET c == connects[i] IN
      /\ (~mongodbUri.set \/ mongodbUri.value = "")
            => (c.pc = "rejected" /\ c.driver = "none")
      /\ c.driver = "failed" => c.pc = "rejected"
      /\ c.pc = "rejected"
            => /\ c.error.isError
               /\ Len(c.error.message) > 0
               /\ Head(c.error.message) = ConnectingPrefix
      /\ c.pc = "resolved" => c.driver = "ok"

\* MONGODB_URI is set, but empty, and every connect called was rejected for
\* want of a URI without a call of mongoose.connect.
C11_Witness ==
  /\ mongodbUri.set
  /\ mongodbUri.value = ""
  /\ Len(connects) = MaxConnects
  /\ \A i \in 1..Len(connects) :
       connects[i] = ConnectCall("rejected",
                                 newError(<<ConnectingPrefix, UriNotDefined>>), "none")

\* With a URI: one connect rejected by a failure of mongoose.connect that
\* carried no message, one resolved, one still awaiting.
C11_WitnessDriver ==
  /\ Len(connects) = MaxConnects
  /\ connects[1] = ConnectCall("rejected",
                               newError(<<ConnectingPrefix, UnknownError>>), "failed")
  /\ connects[2].pc = "resolved"
  /\ connects[MaxConnects].pc = "awaiting"
=============================================================================
